---- MODULE Spec2Model ----
(***************************************************************************)
(* A model of constparser (cp.cpp): a lexer over a character stream, a     *)
(* one-token lookahead cursor, a precedence-climbing expression parser, a  *)
(* tree-walking evaluator over the variable table `vars`, and the          *)
(* statement loop Parse().                                                 *)
(*                                                                         *)
(* Characters are one-character strings; the text of a token is a sequence *)
(* of characters.  A double is modelled as an exact signed rational with   *)
(* the IEEE special values (signed zero, signed infinity, NaN); rounding   *)
(* of inexact quotients is not modelled.                                   *)
(***************************************************************************)
EXTENDS Integers, Sequences, FiniteSets, Bags, TLC

VARIABLES
    input,      \* the characters of standard input (never changes)
    prog,       \* the statements `input` was written from (never changes)
    pos,        \* index of the next character std::cin.get() returns
    curToken,   \* Token curToken
    curValid,   \* bool  curValid
    vars,       \* varmap vars
    out,        \* the operands of the `val=` lines printed so far
    diag,       \* bag of the diagnostic lines printed so far
    pc,         \* position of Parse()
    v,          \* Token v of Parse()
    stack,      \* the active ParseRhs frames, innermost last
    val         \* Value val of Parse(), set when ParseExpr returns

vars_all == <<input, prog, pos, curToken, curValid, vars, out, diag, pc, v, stack, val>>

-----------------------------------------------------------------------------
(* Characters *)

Letters == {"a", "b", "u", "x"}
Digits  == {"0", "1", "2", "3", "4", "5", "6", "7", "8", "9"}
Spaces  == {" "}

isspace(ch) == ch \in Spaces
isalpha(ch) == ch \in Letters
isdigit(ch) == ch \in Digits
isalnum(ch) == isalpha(ch) \/ isdigit(ch)

DigitValue(ch) ==
    CASE ch = "0" -> 0 [] ch = "1" -> 1 [] ch = "2" -> 2 [] ch = "3" -> 3
      [] ch = "4" -> 4 [] ch = "5" -> 5 [] ch = "6" -> 6 [] ch = "7" -> 7
      [] ch = "8" -> 8 [] ch = "9" -> 9

-----------------------------------------------------------------------------
(* double *)

RECURSIVE Gcd(_, _)
Gcd(a, b) == IF b = 0 THEN a ELSE Gcd(b, a % b)

Abs(i) == IF i < 0 THEN -i ELSE i

\* A finite double: sign s, magnitude n/d in lowest terms.
Fin(s, n, d) ==
    LET g == Gcd(n, d)
    IN  [k |-> "fin", s |-> s, n |-> n \div g, d |-> d \div g]

Inf(s) == [k |-> "inf", s |-> s, n |-> 1, d |-> 0]
NaN    == [k |-> "nan", s |-> 1, n |-> 0, d |-> 0]

Num(i) == Fin(IF i < 0 THEN -1 ELSE 1, Abs(i), 1)

IsZero(x) == x.k = "fin" /\ x.n = 0

\* unary minus on a double
Neg(x) == IF x.k = "nan" THEN NaN ELSE [x EXCEPT !.s = -@]

\* double + double
Add(x, y) ==
    IF x.k = "nan" \/ y.k = "nan" THEN NaN
    ELSE IF x.k = "inf" /\ y.k = "inf" THEN (IF x.s = y.s THEN x ELSE NaN)
    ELSE IF x.k = "inf" THEN x
    ELSE IF y.k = "inf" THEN y
    ELSE LET a == x.s * x.n * y.d + y.s * y.n * x.d
         IN  IF a = 0
             THEN Fin(IF IsZero(x) /\ IsZero(y) /\ x.s = -1 /\ y.s = -1 THEN -1 ELSE 1, 0, 1)
             ELSE Fin(IF a < 0 THEN -1 ELSE 1, Abs(a), x.d * y.d)

\* double - double
Sub(x, y) == Add(x, Neg(y))

\* double * double
Mul(x, y) ==
    IF x.k = "nan" \/ y.k = "nan" THEN NaN
    ELSE IF (x.k = "inf" /\ IsZero(y)) \/ (IsZero(x) /\ y.k = "inf") THEN NaN
    ELSE IF x.k = "inf" \/ y.k = "inf" THEN Inf(x.s * y.s)
    ELSE Fin(x.s * y.s, x.n * y.n, x.d * y.d)

\* double / double
Div(x, y) ==
    IF x.k = "nan" \/ y.k = "nan" THEN NaN
    ELSE IF x.k = "inf" /\ y.k = "inf" THEN NaN
    ELSE IF IsZero(x) /\ IsZero(y) THEN NaN
    ELSE IF x.k = "inf" \/ IsZero(y) THEN Inf(x.s * y.s)
    ELSE IF y.k = "inf" THEN Fin(x.s * y.s, 0, 1)
    ELSE Fin(x.s * y.s, x.n * y.d, x.d * y.n)

-----------------------------------------------------------------------------
(* Token *)

TokenTypes == {"Varname", "Number", "Plus", "Minus", "Mult", "Divide", "LParen",
               "RParen", "Equal", "SemiColon", "EndOfFile", "Undefined"}

\* Token(const std::string& v, Type t)
TokenOf(text, t) == [type |-> t, value |-> text]

\* Token(Type t): the text is the empty string
Token(t) == [type |-> t, value |-> <<>>]

PrecedenceAllOne(t) == IF t.type \in {"Mult", "Divide", "Plus", "Minus"} THEN 1 ELSE 0

Precedence(t) ==
    CASE t.type \in {"Mult", "Divide"} -> 2
      [] t.type \in {"Plus", "Minus"}  -> 1
      [] OTHER                         -> 0

-----------------------------------------------------------------------------
(* The lexer.  A cursor L is the part of the program state the lexer and   *)
(* the token cursor read and write: pos, curToken, curValid and diag.      *)

\* F(x), with x evaluated once
Bind(x, F(_)) == CHOOSE r \in {F(y) : y \in {x}} : TRUE

Cursor == [pos |-> pos, curToken |-> curToken, curValid |-> curValid, diag |-> diag]

\* one diagnostic line on std::cout
Say(L, kind, arg) == [L EXCEPT !.diag = @ (+) SetToBag({[kind |-> kind, arg |-> arg]})]

\* the first index at or after p whose character fails `cls` (the inner while loops)
RECURSIVE RunEnd(_, _)
RunEnd(p, cls) ==
    IF p <= Len(input) /\ input[p] \in cls THEN RunEnd(p + 1, cls) ELSE p

PunctType(ch) ==
    CASE ch = "+" -> "Plus"   [] ch = "-" -> "Minus"  [] ch = "*" -> "Mult"
      [] ch = "/" -> "Divide" [] ch = "=" -> "Equal"  [] ch = "(" -> "LParen"
      [] ch = ")" -> "RParen" [] ch = ";" -> "SemiColon"
      [] OTHER    -> "Undefined"

RECURSIVE GetNextToken(_)
GetNextToken(L0) ==
    Bind(L0, LAMBDA L :
    IF L.pos > Len(input)
    THEN [tok |-> Token("EndOfFile"), L |-> L]
    ELSE LET ch == input[L.pos]
         IN  IF isspace(ch) THEN GetNextToken([L EXCEPT !.pos = @ + 1])
             ELSE IF isalpha(ch)
             THEN LET e == RunEnd(L.pos, Letters \cup Digits)
                  IN  [tok |-> TokenOf(SubSeq(input, L.pos, e - 1), "Varname"),
                       L |-> [L EXCEPT !.pos = e]]
             ELSE IF isdigit(ch)
             THEN LET e == RunEnd(L.pos, Digits)
                  IN  [tok |-> TokenOf(SubSeq(input, L.pos, e - 1), "Number"),
                       L |-> [L EXCEPT !.pos = e]]
             ELSE IF PunctType(ch) # "Undefined"
             THEN [tok |-> Token(PunctType(ch)), L |-> [L EXCEPT !.pos = @ + 1]]
             ELSE GetNextToken(Say([L EXCEPT !.pos = @ + 1], "Uh? found character", <<ch>>)))

\* GetToken(): the cursor afterwards; the token returned is its curToken
GetToken(L0) ==
    Bind(L0, LAMBDA L :
    IF ~L.curValid
    THEN Bind(GetNextToken(L), LAMBDA r : [r.L EXCEPT !.curToken = r.tok, !.curValid = TRUE])
    ELSE L)

NextToken(L) == [L EXCEPT !.curValid = FALSE]

RECURSIVE DecimalValue(_)
DecimalValue(text) ==
    IF text = <<>> THEN 0
    ELSE 10 * DecimalValue(SubSeq(text, 1, Len(text) - 1)) + DigitValue(text[Len(text)])

\* ToDouble(val): stream extraction of a double succeeds on a digit run
ToDouble(text, L) ==
    IF text # <<>> /\ \A i \in 1..Len(text) : isdigit(text[i])
    THEN [d |-> Num(DecimalValue(text)), L |-> L]
    ELSE [d |-> Num(-1), L |-> Say(L, "Invalid number, replacing with -1", <<>>)]

Expect(ty, L) ==
    Bind(GetToken(L), LAMBDA L1 :
    LET t  == L1.curToken
        L2 == NextToken(L1)
    IN  IF t.type # ty /\ t.type # "EndOfFile"
        THEN [ok |-> FALSE, t |-> t,
              L |-> Say(L2, "Invalid token, expected", <<ty, t.type>> \o t.value)]
        ELSE [ok |-> TRUE, t |-> t, L |-> L2])

-----------------------------------------------------------------------------
(* Value: the expression tree *)

Constant(d)       == [type |-> "Constant", value |-> d]
Variable(s)       == [type |-> "Variable", varname |-> s]
ConstExpr(l, t, r) == [type |-> "Expr", lhs |-> l, op |-> t, rhs |-> r]
ConstUnaryExpr(t, r) == [type |-> "UnaryExpr", op |-> t, rhs |-> r]

RECURSIVE ParseSimpleExpr(_)
ParseSimpleExpr(L) ==
    Bind(GetToken(L), LAMBDA L1 :
    LET t  == L1.curToken
    IN  CASE t.type = "Number" ->
               LET c == ToDouble(t.value, NextToken(L1))
               IN  [val |-> Constant(c.d), L |-> c.L]
          [] t.type = "Varname" ->
               [val |-> Variable(t.value), L |-> NextToken(L1)]
          [] t.type \in {"Plus", "Minus"} ->
               Bind(ParseSimpleExpr(NextToken(L1)), LAMBDA r :
                   [val |-> ConstUnaryExpr(t.type, r.val), L |-> r.L])
          [] t.type \in {"EndOfFile", "SemiColon"} ->
               [val |-> Constant(Num(0)), L |-> L1]
          [] OTHER ->
               [val |-> Constant(Num(0)), L |-> Say(L1, "Unknown value", <<>>)])

-----------------------------------------------------------------------------
(* The evaluator.  A result is the double and the bag of diagnostics the   *)
(* evaluation printed; the operands of a binary node may be evaluated in   *)
(* either order, which only permutes those lines.                          *)

InvalidVariable(name) == [kind |-> "Invalid variable", arg |-> name]

FindVarSilent(name, env) ==
    IF name \in DOMAIN env
    THEN [found |-> TRUE, d |-> env[name], diag |-> EmptyBag]
    ELSE [found |-> FALSE, d |-> Num(0), diag |-> EmptyBag]

FindVar(name, env) ==
    IF name \in DOMAIN env
    THEN [found |-> TRUE, d |-> env[name], diag |-> EmptyBag]
    ELSE [found |-> FALSE, d |-> Num(0),
          diag |-> SetToBag({InvalidVariable(name)})]

UnknownOperation(t) == SetToBag({[kind |-> "Unknown operation", arg |-> <<t>>]})

\* ConstUnaryExpr::Evaluate on the evaluated operand
UnaryEvaluateNoSign(op, r) == [d |-> r.d, diag |-> r.diag]

UnaryEvaluate(op, r) ==
    CASE op = "Plus"  -> [d |-> r.d, diag |-> r.diag]
      [] op = "Minus" -> [d |-> Neg(r.d), diag |-> r.diag]
      [] OTHER        -> [d |-> Num(0), diag |-> UnknownOperation(op)]

\* ConstExpr::Evaluate on the evaluated operands
BinaryEvaluate(op, l, r) ==
    CASE op = "Plus"   -> [d |-> Add(l.d, r.d), diag |-> l.diag (+) r.diag]
      [] op = "Minus"  -> [d |-> Sub(l.d, r.d), diag |-> l.diag (+) r.diag]
      [] op = "Mult"   -> [d |-> Mul(l.d, r.d), diag |-> l.diag (+) r.diag]
      [] op = "Divide" -> [d |-> Div(l.d, r.d), diag |-> l.diag (+) r.diag]
      [] OTHER         -> [d |-> Num(0), diag |-> UnknownOperation(op)]

\* Value::operator()
RECURSIVE Evaluate(_, _)
Evaluate(x, env) ==
    CASE x.type = "Constant"  -> [d |-> x.value, diag |-> EmptyBag]
      [] x.type = "Variable"  ->
           LET f == FindVar(x.varname, env)
           IN  [d |-> IF f.found THEN f.d ELSE Num(0), diag |-> f.diag]
      [] x.type = "Expr"      ->
           Bind(Evaluate(x.lhs, env), LAMBDA l :
           Bind(Evaluate(x.rhs, env), LAMBDA r : BinaryEvaluate(x.op, l, r)))
      [] x.type = "UnaryExpr" ->
           Bind(Evaluate(x.rhs, env), LAMBDA r : UnaryEvaluate(x.op, r))

-----------------------------------------------------------------------------
(* The input.  A program is a sequence of items: a statement               *)
(* name = factor (op factor)* ; written from its parts, or a piece of raw  *)
(* text.  `input` is the items written out with one blank between them.    *)

Chars(str) ==
    CASE str = "Plus" -> <<"+">> [] str = "Minus" -> <<"-">>
      [] str = "Mult" -> <<"*">> [] str = "Divide" -> <<"/">>

Factor(signs, atom) == [signs |-> signs, atom |-> atom]
NoFactor == Factor(<<>>, <<>>)

Stmt(name, first, rest) ==
    [wf |-> TRUE, name |-> name, first |-> first, rest |-> rest, text |-> <<>>]
Text(text) ==
    [wf |-> FALSE, name |-> <<>>, first |-> NoFactor, rest |-> <<>>, text |-> text]

RECURSIVE Flatten(_)
Flatten(ss) == IF ss = <<>> THEN <<>> ELSE Head(ss) \o Flatten(Tail(ss))

RenderFactor(f) == Flatten([i \in 1..Len(f.signs) |-> Chars(f.signs[i])]) \o f.atom

RenderItem(it) ==
    IF it.wf
    THEN it.name \o <<"=">> \o RenderFactor(it.first)
         \o Flatten([i \in 1..Len(it.rest) |->
                       Chars(it.rest[i].op) \o RenderFactor(it.rest[i].factor)])
         \o <<";">>
    ELSE it.text

Render(p) ==
    Flatten([i \in 1..Len(p) |-> IF i = 1 THEN RenderItem(p[i]) ELSE <<" ">> \o RenderItem(p[i])])

SeqsUpTo(S, n) == UNION {[1..k -> S] : k \in 0..n}

-----------------------------------------------------------------------------
(* Parse() *)

\* while (v.type != Token::EndOfFile)
LoopCond(t) == IF t.type # "EndOfFile" THEN "ExpectName" ELSE "Done"

SetCursorNever(L) == UNCHANGED <<pos, curToken, curValid, diag>>

\* the writes of the lexer and the token cursor, and the lines they printed
SetCursor(L) ==
    /\ pos' = L.pos
    /\ curToken' = L.curToken
    /\ curValid' = L.curValid
    /\ diag' = L.diag

\* if (Expect(Token::Varname, v))
ExpectName ==
    /\ pc = "ExpectName"
    /\ \E r \in {Expect("Varname", Cursor)} :
           /\ v' = r.t
           /\ SetCursor(r.L)
           /\ pc' = IF r.ok THEN "ExpectEquals" ELSE LoopCond(r.t)
    /\ UNCHANGED <<input, prog, vars, out, stack, val>>

\* if (Expect(Token::Equal, e))
ExpectEquals ==
    /\ pc = "ExpectEquals"
    /\ \E r \in {Expect("Equal", Cursor)} :
           /\ SetCursor(r.L)
           /\ pc' = IF r.ok THEN "ParseExpr" ELSE LoopCond(v)
    /\ UNCHANGED <<input, prog, vars, out, v, stack, val>>

FrameFloorRaised(lhs, prec) == [lhs |-> lhs, prec |-> prec + 1, op |-> "Undefined"]

Frame(lhs, prec) == [lhs |-> lhs, prec |-> prec, op |-> "Undefined"]

\* ParseExpr(): the first operand, then ParseRhs(lhs, 0) unless ';' follows
ParseExpr ==
    /\ pc = "ParseExpr"
    /\ \E r \in {ParseSimpleExpr(Cursor)} : \E L1 \in {GetToken(r.L)} :
           /\ SetCursor(L1)
           /\ IF L1.curToken.type = "SemiColon"
              THEN /\ val' = r.val
                   /\ pc' = "Assign"
                   /\ stack' = stack
              ELSE /\ val' = val
                   /\ pc' = "ParseRhs"
                   /\ stack' = <<Frame(r.val, 0)>>
    /\ UNCHANGED <<input, prog, vars, out, v>>

\* `return x` of the innermost ParseRhs: to ParseExpr's caller, or into
\* `rhs = ParseRhs(rhs, next); lhs = Value(new ConstExpr(lhs, t.type, rhs))`
\* of the frame below, which then loops
Return(x, L) ==
    /\ SetCursor(L)
    /\ IF Len(stack) = 1
       THEN /\ val' = x
            /\ pc' = "Assign"
            /\ stack' = <<>>
       ELSE LET c == stack[Len(stack) - 1]
            IN  /\ val' = val
                /\ pc' = "ParseRhs"
                /\ stack' = [SubSeq(stack, 1, Len(stack) - 1) EXCEPT
                               ![Len(stack) - 1] = [c EXCEPT !.lhs = ConstExpr(c.lhs, c.op, x),
                                                             !.op = "Undefined"]]

\* the frame loops with a new lhs
Loop(lhs, L) ==
    /\ SetCursor(L)
    /\ val' = val
    /\ pc' = "ParseRhs"
    /\ stack' = [stack EXCEPT ![Len(stack)] = [@ EXCEPT !.lhs = lhs]]

\* the frame calls ParseRhs(rhs, next) with operator t pending
Call(t, rhs, next, L) ==
    /\ SetCursor(L)
    /\ val' = val
    /\ pc' = "ParseRhs"
    /\ stack' = Append([stack EXCEPT ![Len(stack)] = [@ EXCEPT !.op = t.type]],
                       Frame(rhs, next))

\* one iteration of the for (;;) of the innermost ParseRhs
ParseRhs ==
    /\ pc = "ParseRhs"
    /\ \E L1 \in {GetToken(Cursor)} :
         LET f == stack[Len(stack)]
             t == L1.curToken
             curPrec == Precedence(t)
         IN  IF t.type = "SemiColon" THEN Return(f.lhs, L1)
             ELSE IF curPrec < f.prec THEN Return(f.lhs, L1)
             ELSE \E r \in {ParseSimpleExpr(NextToken(L1))} : \E L4 \in {GetToken(r.L)} :
                  LET next == Precedence(L4.curToken)
                  IN  CASE t.type \in {"Plus", "Minus", "Mult", "Divide"} ->
                             IF curPrec < next
                             THEN Call(t, r.val, next, L4)
                             ELSE Loop(ConstExpr(f.lhs, t.type, r.val), L4)
                        [] t.type = "Equal" ->
                             Loop(f.lhs, NextToken(Say(r.L, "Error: Unexpected '='", <<>>)))
                        [] t.type = "EndOfFile" -> Return(Constant(Num(-1)), r.L)
                        [] t.type = "SemiColon" -> Return(f.lhs, r.L)
                        [] OTHER ->
                             Loop(f.lhs, NextToken(Say(r.L, "Error, unknown token", <<>>)))
    /\ UNCHANGED <<input, prog, vars, out, v>>

StoreIfAbsent(env, name, d) ==
    [n \in DOMAIN env \cup {name} |-> IF n \in DOMAIN env THEN env[n] ELSE d]

\* vars[name] = d
Store(env, name, d) ==
    [n \in DOMAIN env \cup {name} |-> IF n = name THEN d ELSE env[n]]

\* NextToken(); vars[v.value] = val(); std::cout << "val=" << val() << std::endl;
\* (the right operand of the assignment is evaluated before vars[v.value])
Assign ==
    /\ pc = "Assign"
    /\ \E e1 \in {Evaluate(val, vars)} : \E nv \in {Store(vars, v.value, e1.d)} :
       \E e2 \in {Evaluate(val, nv)} : \E L \in {NextToken(Cursor)} :
           /\ vars' = nv
           /\ out' = Append(out, e2.d)
           /\ SetCursor([L EXCEPT !.diag = @ (+) e1.diag (+) e2.diag])
    /\ pc' = LoopCond(v)
    /\ UNCHANGED <<input, prog, v, stack, val>>

\* the iterations of Parse()
Step == ExpectName \/ ExpectEquals \/ ParseExpr \/ ParseRhs \/ Assign

\* main() without -v: Parse() is entered with the text of program p, one of
\* the programs P, on standard input
Main(P) ==
    /\ pc = "main"
    /\ \E p \in P :
         /\ prog' = p
         /\ input' = Render(p)
    /\ pc' = "ExpectName"
    /\ UNCHANGED <<pos, curToken, curValid, vars, out, diag, v, stack, val>>

\* the globals as constructed, before main() has run
Init ==
    /\ prog = <<>>
    /\ input = <<>>
    /\ pos = 1
    /\ curToken = Token("Undefined")
    /\ curValid = FALSE
    /\ vars = <<>>
    /\ out = <<>>
    /\ diag = EmptyBag
    /\ pc = "main"
    /\ v = Token("Undefined")
    /\ stack = <<>>
    /\ val = Constant(Num(0))

-----------------------------------------------------------------------------
(* Inputs: a statement head or nothing, a short run of arbitrary           *)
(* characters, a terminator or nothing, and a well-formed statement after  *)
(* it or nothing.                                                          *)

MaxSoup == 3

SoupChars == {"a", "1", " ", "=", "(", "+", "*", ";", "#"}

Follower == Stmt(<<"b">>, Factor(<<>>, <<"2">>), <<>>)

Programs ==
    { <<Text(pre \o soup \o term)>> \o fol :
        pre \in {<<>>, <<"a", "=">>}, soup \in SeqsUpTo(SoupChars, MaxSoup),
        term \in {<<>>, <<";">>}, fol \in {<<>>, <<Follower>>} }

MainAny == Main(Programs)

Next == MainAny \/ Step

Spec == Init /\ [][Next]_vars_all

-----------------------------------------------------------------------------
(* Well-formed inputs *)

BinOps == {"Plus", "Minus", "Mult", "Divide"}

Items(ops, factors) == [op : ops, factor : factors]

\* a = 10 ; then b = f (op f)* ; with up to PrecMaxOps operators
PrecMaxOps == 3

PrecFactors == {Factor(<<>>, x) : x \in {<<"2">>, <<"3">>, <<"a">>}}

ProgramsPrec ==
    { <<Stmt(<<"a">>, Factor(<<>>, <<"1", "0">>), <<>>), Stmt(<<"b">>, f, rest)>> :
        f \in PrecFactors, rest \in SeqsUpTo(Items(BinOps, PrecFactors), PrecMaxOps) }

MainPrec == Main(ProgramsPrec)

NextPrec == MainPrec \/ Step

SpecPrec == Init /\ [][NextPrec]_vars_all

\* a = 3 ; then b = sf ; or b = sf op sf ; each sf an atom under up to
\* UnaryMaxSigns signs
UnaryMaxSigns == 3

UnaryFactors ==
    {Factor(sg, x) : sg \in SeqsUpTo({"Plus", "Minus"}, UnaryMaxSigns), x \in {<<"5">>, <<"a">>}}

ProgramsUnary ==
    { <<Stmt(<<"a">>, Factor(<<>>, <<"3">>), <<>>), Stmt(<<"b">>, f, rest)>> :
        f \in UnaryFactors, rest \in SeqsUpTo(Items(BinOps, UnaryFactors), 1) }

MainUnary == Main(ProgramsUnary)

NextUnary == MainUnary \/ Step

SpecUnary == Init /\ [][NextUnary]_vars_all

\* up to SeqMaxStmts statements n = x ; or n = x + 1 ; over the names a and b
SeqMaxStmts == 3

SeqStmts ==
    { Stmt(n, Factor(<<>>, x), rest) :
        n \in {<<"a">>, <<"b">>}, x \in {<<"2">>, <<"a">>, <<"b">>},
        rest \in {<<>>, <<[op |-> "Plus", factor |-> Factor(<<>>, <<"1">>)]>>} }

ProgramsSeq == SeqsUpTo(SeqStmts, SeqMaxStmts)

MainSeq == Main(ProgramsSeq)

NextSeq == MainSeq \/ Step

SpecSeq == Init /\ [][NextSeq]_vars_all

\* a statement head or nothing, then a short run of arbitrary characters
ProgramsLive ==
    { <<Text(pre \o soup)>> :
        pre \in {<<>>, <<"a", "=">>}, soup \in SeqsUpTo(SoupChars, MaxSoup) }

MainLive == Main(ProgramsLive)

NextLive == MainLive \/ Step

\* Parse() is the only thread of the process: it keeps running until it returns
SpecLive == Init /\ [][NextLive]_vars_all /\ WF_vars_all(NextLive)

-----------------------------------------------------------------------------
(* Inputs that end inside an expression: a complete statement before or    *)
(* nothing, then `a=` and a short run of operands, operators and           *)
(* parentheses with no ';' up to the end of the input.                     *)

MaxCut == 4

CutChars == {"1", "b", "+", "-", "*", "(", ")"}

ProgramsCut ==
    { lead \o <<Text(<<"a", "=">> \o cut)>> :
        lead \in {<<>>, <<Follower>>}, cut \in SeqsUpTo(CutChars, MaxCut) }

MainCut == Main(ProgramsCut)

NextCut == MainCut \/ Step

SpecCut == Init /\ [][NextCut]_vars_all

-----------------------------------------------------------------------------
(* The meaning of a well-formed statement, read off the grammar            *)
(*   expr := term (('+'|'-') term)*     term := factor (('*'|'/') factor)* *)
(*   factor := NUMBER | IDENT | ('+'|'-') factor                           *)
(* with an undefined name read as 0.                                       *)

RefAtom(atom, env) ==
    IF atom[1] \in Digits THEN Num(DecimalValue(atom))
    ELSE IF atom \in DOMAIN env THEN env[atom] ELSE Num(0)

\* an odd number of minus signs negates, an even number does not
RefFactor(f, env) ==
    LET minus == Cardinality({i \in 1..Len(f.signs) : f.signs[i] = "Minus"})
    IN  IF minus % 2 = 1 THEN Neg(RefAtom(f.atom, env)) ELSE RefAtom(f.atom, env)

RefApply(op, x, y) ==
    CASE op = "Plus" -> Add(x, y) [] op = "Minus" -> Sub(x, y)
      [] op = "Mult" -> Mul(x, y) [] op = "Divide" -> Div(x, y)

\* the rest of a term: the leading run of '*' and '/' items, left to right
RECURSIVE RefTerm(_, _, _)
RefTerm(acc, rest, env) ==
    IF rest # <<>> /\ rest[1].op \in {"Mult", "Divide"}
    THEN RefTerm(RefApply(rest[1].op, acc, RefFactor(rest[1].factor, env)), Tail(rest), env)
    ELSE [d |-> acc, rest |-> rest]

\* the rest of an expression: '+' and '-' of whole terms, left to right
RECURSIVE RefSum(_, _, _)
RefSum(acc, rest, env) ==
    IF rest = <<>> THEN acc
    ELSE LET t == RefTerm(RefFactor(rest[1].factor, env), Tail(rest), env)
         IN  RefSum(RefApply(rest[1].op, acc, t.d), t.rest, env)

RefValue(st, env) ==
    LET t == RefTerm(RefFactor(st.first, env), st.rest, env)
    IN  RefSum(t.d, t.rest, env)

\* the table after statements 1..k of p, in input order
RECURSIVE RefEnv(_, _)
RefEnv(p, k) ==
    IF k = 0 THEN <<>>
    ELSE LET e == RefEnv(p, k - 1)
         IN  [n \in DOMAIN e \cup {p[k].name} |->
                IF n = p[k].name THEN RefValue(p[k], e) ELSE e[n]]

\* the names a tree refers to
RECURSIVE Refs(_)
Refs(x) ==
    CASE x.type = "Constant"  -> {}
      [] x.type = "Variable"  -> {x.varname}
      [] x.type = "Expr"      -> Refs(x.lhs) \cup Refs(x.rhs)
      [] x.type = "UnaryExpr" -> Refs(x.rhs)

\* the tree with every reference to u replaced by the literal 0
RECURSIVE Zeroed(_, _)
Zeroed(x, u) ==
    CASE x.type = "Constant"  -> x
      [] x.type = "Variable"  -> IF x.varname = u THEN Constant(Num(0)) ELSE x
      [] x.type = "Expr"      -> ConstExpr(Zeroed(x.lhs, u), x.op, Zeroed(x.rhs, u))
      [] x.type = "UnaryExpr" -> ConstUnaryExpr(x.op, Zeroed(x.rhs, u))

\* the k-th statement has just been assigned and printed
JustDone(k) == k \in 1..Len(prog) /\ Len(out) = k

-----------------------------------------------------------------------------
(* Claims *)

\* C1: for every statement that reaches ExpectExpression, the number printed
\* on its val= line equals the number that statement stored under its name,
\* also when the expression refers to the statement's own name.
C1_PrintedEqualsStored ==
    [][pc = "Assign" => out'[Len(out')] = vars'[v.value]]_vars_all

\* C2: when the token consumed at ExpectName is EndOfFile the driver halts at
\* once, and from then on no entry is created or changed and no val= line is
\* printed.
C2_HaltsAtEndOfStream ==
    [][/\ (pc = "ExpectName" /\ v'.type = "EndOfFile") => pc' = "Done"
       /\ v.type = "EndOfFile" => (vars' = vars /\ out' = out)]_vars_all

\* C3: the value a well-formed statement stores is the value of its
\* expression with '*' and '/' binding tighter than '+' and '-' and equal
\* precedence grouped left to right.
C3_PrecedenceAndAssociativity ==
    \A k \in 1..Len(prog) :
        JustDone(k) =>
            /\ prog[k].name \in DOMAIN vars
            /\ vars[prog[k].name] = RefValue(prog[k], RefEnv(prog, k - 1))

C3_Witness ==
    /\ JustDone(2)
    /\ prog[2].first.atom = <<"a">>
    /\ [i \in 1..Len(prog[2].rest) |-> prog[2].rest[i].op] = <<"Minus", "Mult", "Divide">>
    /\ [i \in 1..Len(prog[2].rest) |-> prog[2].rest[i].factor.atom] = <<<<"2">>, <<"3">>, <<"a">>>>
    /\ vars[<<"b">>] = Fin(1, 47, 5)

\* C4: a chain of k minus signs before a factor x gives x for even k and -x
\* for odd k, plus signs change nothing, and the signed factor is one operand
\* of the binary operator around it.
C4_UnarySign ==
    JustDone(2) =>
        LET st == prog[2]
            x  == RefFactor(st.first, RefEnv(prog, 1))
        IN  /\ <<"b">> \in DOMAIN vars
            /\ st.rest = <<>> => vars[<<"b">>] = x
            /\ st.rest # <<>> =>
                 vars[<<"b">>] = RefApply(st.rest[1].op, x, RefFactor(st.rest[1].factor, RefEnv(prog, 1)))

C4_Witness ==
    /\ JustDone(2)
    /\ prog[2].first = Factor(<<"Minus", "Plus", "Minus">>, <<"5">>)
    /\ prog[2].rest = <<[op |-> "Mult", factor |-> Factor(<<"Minus">>, <<"a">>)]>>
    /\ vars[<<"b">>] = Num(-15)

\* C5: after the k-th statement the table is the one statements 1..k produce
\* in input order: a reference reads the most recent earlier assignment, and
\* no later statement has any influence.
C5_ArrivalOrder ==
    \A k \in 1..Len(prog) : JustDone(k) => vars = RefEnv(prog, k)

C5_Witness ==
    /\ JustDone(3)
    /\ RenderItem(prog[1]) = <<"a", "=", "2", ";">>
    /\ RenderItem(prog[2]) = <<"a", "=", "a", "+", "1", ";">>
    /\ RenderItem(prog[3]) = <<"b", "=", "a", "+", "1", ";">>
    /\ vars[<<"a">>] = Num(3)
    /\ vars[<<"b">>] = Num(4)

\* the statement name = <expression text> ; with no ';' inside the text
OneStatement(it) ==
    /\ ~it.wf
    /\ Len(it.text) > 3
    /\ SubSeq(it.text, 1, 2) = <<"a", "=">>
    /\ \A i \in 1..Len(it.text) : it.text[i] = ";" <=> i = Len(it.text)

\* C6: an error inside one statement's expression is recovered inside that
\* statement: the well-formed statement after its ';' is parsed as its own
\* statement, assigns its value to its name and prints its val= line.
C6_ErrorStaysInStatement ==
    (pc = "Done" /\ Len(prog) = 2 /\ OneStatement(prog[1])) =>
        /\ prog[2].name \in DOMAIN vars
        /\ vars[prog[2].name] = RefValue(prog[2], <<>>)
        /\ \E i \in 1..Len(out) : out[i] = RefValue(prog[2], <<>>)

\* C7: for a = 11a ; the lexer yields the Number 11, the letter yields an
\* unrecognized-character diagnostic and no Identifier token, and the
\* statement assigns 11 to a and prints it.
C7_DigitRunThenLetter ==
    prog = <<Text(<<"a", "=", "1", "1", "a", ";">>)>> =>
        /\ curToken.type = "Varname" => pos = 2
        /\ pc = "Done" =>
            /\ BagIn([kind |-> "Uh? found character", arg |-> <<"a">>], diag)
            /\ <<"a">> \in DOMAIN vars
            /\ vars[<<"a">>] = Num(11)
            /\ out # <<>>
            /\ out[1] = Num(11)

C9_Halts == <>(pc = "Done")

C9_Witness ==
    /\ pc = "Done"
    /\ input = <<"a", "=", "1", "+">>
    /\ vars[<<"a">>] = Num(-1)

\* C10: every key of the table is a non-empty name that starts with a letter.
C10_KeysAreIdentifiers ==
    \A n \in DOMAIN vars : n # <<>> /\ isalpha(n[1])

\* C11: when ParseExpr() hands its result to the driver with the cursor on
\* EndOfFile, i.e. the end of the input was reached inside the statement's
\* expression and not its ';', the result is the literal -1 whatever was
\* parsed before, and the assignment stores -1 under the statement's name.
C11_EndOfStreamYieldsSentinel ==
    [][(pc = "Assign" /\ curValid /\ curToken.type = "EndOfFile") =>
         /\ val = Constant(Num(-1))
         /\ vars'[v.value] = Num(-1)]_vars_all

C11_Witness ==
    /\ prog = <<Follower, Text(<<"a", "=", "1", "-", "b">>)>>
    /\ Len(out) = 2
    /\ vars[<<"b">>] = Num(2)
    /\ vars[<<"a">>] = Num(-1)

====
